---- MODULE Spec2Model ----
(***************************************************************************)
(* Repeated-block detection of traceMap (src/src/data.py,                  *)
(* TraceDataProcessor): _encode_kernel_names, _select_non_overlapping and  *)
(* find_repeated_block, as a state machine that walks the loops of         *)
(* find_repeated_block one length, one hash bucket and one verified group  *)
(* at a time.                                                              *)
(*                                                                         *)
(* Python lists are sequences read through At (0-based).  A Python dict is *)
(* a sequence of [key, idxs] records in insertion order, which is the      *)
(* order .items() iterates in.  None is the record None (a block) or       *)
(* NoTarget (an integer argument).                                         *)
(***************************************************************************)
EXTENDS Integers, Sequences, FiniteSets, TLC

VARIABLES
    names,              \* df["Kernel Name"].tolist()
    min_block_length,   \* argument
    max_block_length,   \* argument
    min_repeats,        \* argument
    target_occurrences, \* argument, NoTarget for None
    mod,                \* modulus of the rolling hash
    encoded,            \* token sequence
    mapping,            \* name -> token
    n,                  \* len(encoded)
    max_length,         \* min(max_block_length, n // min_repeats)
    length,             \* loop variable of the length loop
    hashes,             \* dict hash -> window starts, of the current length
    bucket,             \* position of the .items() iteration over hashes
    sequences,          \* dict window -> starts, of the current bucket
    group,              \* position of the .items() iteration over sequences
    best,               \* best block so far
    best_priority,      \* its ranking tuple, <<>> for None
    result,             \* the value returned
    reads,              \* indices of encoded read by the hashing and slicing
    indices,            \* argument of a direct _select_non_overlapping call
    block_length,       \* argument of a direct _select_non_overlapping call
    selected,           \* its return value
    durations,          \* df["Duration (us)"], in thousandths of a microsecond
    block_info,         \* argument of summarize_block and block_metadata
    summary,            \* the table summarize_block returns
    metadata,           \* the table block_metadata returns
    duration_reads,     \* positions of df the two read a duration at
    runs,               \* the locals of two detection runs in progress
    pc

vars == <<names, min_block_length, max_block_length, min_repeats,
          target_occurrences, mod, encoded, mapping, n, max_length, length,
          hashes, bucket, sequences, group, best, best_priority, result,
          reads, indices, block_length, selected, durations, block_info,
          summary, metadata, duration_reads, runs, pc>>

stats == <<durations, block_info, summary, metadata, duration_reads>>

(***************************************************************************)
(* Bounds of the model.                                                    *)
(***************************************************************************)
MaxLen == 6        \* longest trace drawn
MaxBlock == 3      \* largest max_block_length drawn
MaxTarget == 3     \* largest target_occurrences drawn
MaxStart == 5      \* largest start position of a direct selector call
MaxStarts == 3     \* longest start list of a direct selector call
MaxEncodeLen == 5  \* longest name list of a direct encoder call
MaxStatsLen == 4   \* longest trace of a direct statistics call
MaxStatsBlock == 2 \* longest block of a direct statistics call
MaxReportLen == 4  \* longest trace of a detection followed by its tables
MaxReportBlock == 2 \* largest max_block_length of such a detection
MaxRunLen == 3     \* longest trace of two runs side by side
MaxLiveLen == 4    \* longest trace of a run followed to its end

KernelNames == {"A", "B"}
EncoderNames == {"A", "B", "C"}
DurationChoices == {1, 2}
MinBlockChoices == {1, 2}
MinRepeatsChoices == {2, 3}

(***************************************************************************)
(* Program constants.  The code's modulus is 1 << 64; the model keeps the  *)
(* low 11 bits of that hash (the widest for which h * base fits TLC's      *)
(* 32-bit integers) and also runs the detection with narrower moduli,      *)
(* under which distinct windows collide; 1 is the constant hash.           *)
(***************************************************************************)
base == 1000003
HashMods == {1, 4, 2048}

NoTarget == -1
StatsTargetChoices == {NoTarget, 2}
None == [length |-> 0, occurrences |-> <<>>, kernel_sequence |-> <<>>,
         score |-> 0, occurrence_count |-> 0,
         target_occurrences |-> NoTarget, occurrence_diff |-> NoTarget]

(***************************************************************************)
(* Python helpers.                                                         *)
(***************************************************************************)
At(seq, i) == seq[i + 1]

\* seq[lo:hi] for 0 <= lo; the slice is clipped at the end of the list
Slice(seq, lo, hi) ==
    SubSeq(seq, lo + 1, IF hi < Len(seq) THEN hi ELSE Len(seq))

Min2(a, b) == IF a < b THEN a ELSE b

Abs(x) == IF x < 0 THEN -x ELSE x

\* comparison of two tuples of integers of the same length
TupleGT(a, b) ==
    \E i \in 1..Len(a) :
        /\ a[i] > b[i]
        /\ \A j \in 1..(i - 1) : a[j] = b[j]

RECURSIVE Insert(_, _)
Insert(x, seq) ==
    IF seq = <<>> THEN <<x>>
    ELSE IF x < Head(seq) THEN <<x>> \o seq
    ELSE <<Head(seq)>> \o Insert(x, Tail(seq))

RECURSIVE sorted(_)
sorted(seq) ==
    IF seq = <<>> THEN <<>> ELSE Insert(Head(seq), sorted(Tail(seq)))

\* a dictionary that iterates newest key first
SetDefaultPrepend(d, key, idx) ==
    IF \E i \in 1..Len(d) : d[i].key = key
    THEN LET i == CHOOSE j \in 1..Len(d) : d[j].key = key
         IN  [d EXCEPT ![i].idxs = Append(@, idx)]
    ELSE <<[key |-> key, idxs |-> <<idx>>]>> \o d

\* d.setdefault(key, []).append(idx)
SetDefaultAppend(d, key, idx) ==
    IF \E i \in 1..Len(d) : d[i].key = key
    THEN LET i == CHOOSE j \in 1..Len(d) : d[j].key = key
         IN  [d EXCEPT ![i].idxs = Append(@, idx)]
    ELSE Append(d, [key |-> key, idxs |-> <<idx>>])

(***************************************************************************)
(* _encode_kernel_names                                                    *)
(***************************************************************************)
NextTokenFromZero(map) == Cardinality(DOMAIN map)

\* line 123: len(mapping) + 1
NextToken(map) == Cardinality(DOMAIN map) + 1

RECURSIVE EncodeFrom(_, _, _)
EncodeFrom(rest, enc, map) ==
    IF rest = <<>> THEN [encoded |-> enc, mapping |-> map]
    ELSE LET name == Head(rest)
             map2 == IF name \in DOMAIN map THEN map
                     ELSE map @@ (name :> NextToken(map))
         IN  EncodeFrom(Tail(rest), Append(enc, map2[name]), map2)

encode_kernel_names(nms) == EncodeFrom(nms, <<>>, <<>>)

(***************************************************************************)
(* _select_non_overlapping                                                 *)
(***************************************************************************)
KeepsStartOffByOne(idx, last_end) == idx >= last_end - 1

KeepsStartStrict(idx, last_end) == idx > last_end

KeepsStart(idx, last_end) == idx >= last_end

RECURSIVE SelectFrom(_, _, _, _)
SelectFrom(rest, blen, sel, last_end) ==
    IF rest = <<>> THEN sel
    ELSE LET idx == Head(rest)
         IN  IF KeepsStart(idx, last_end)
             THEN SelectFrom(Tail(rest), blen, Append(sel, idx), idx + blen)
             ELSE SelectFrom(Tail(rest), blen, sel, last_end)

select_non_overlapping(idxs, blen) == SelectFrom(sorted(idxs), blen, <<>>, -1)

(***************************************************************************)
(* find_repeated_block: the rolling hash                                   *)
(***************************************************************************)
TooShortForOneBlock(len, mbl, mr) == len < mbl

TooShort(len, mbl, mr) == len < mbl * mr

MaxLengthUnclamped(maxbl, len, mr) == maxbl

MaxLengthClampedToTrace(maxbl, len, mr) == Min2(maxbl, len)

MaxLength(maxbl, len, mr) == Min2(maxbl, len \div mr)

\* pow(base, e, m)
RECURSIVE PowMod(_, _, _)
PowMod(b, e, m) == IF e = 0 THEN 1 % m ELSE (PowMod(b, e - 1, m) * (b % m)) % m

RECURSIVE InitialHash(_, _, _, _, _)
InitialHash(enc, len, m, i, h) ==
    IF i >= len THEN h
    ELSE InitialHash(enc, len, m, i + 1, (h * base + At(enc, i)) % m)

\* the outgoing token removed without its weight
RollHashWithoutPower(h, left_val, right_val, pow_base, m) ==
    LET h1 == (h - left_val) % m
    IN  (h1 * base + right_val) % m

RollHash(h, left_val, right_val, pow_base, m) ==
    LET h1 == (h - ((left_val * pow_base) % m)) % m
    IN  (h1 * base + right_val) % m

RECURSIVE RollFrom(_, _, _, _, _, _, _)
RollFrom(enc, len, m, pow_base, start, h, hs) ==
    IF start >= Len(enc) - len + 1 THEN hs
    ELSE LET h2 == RollHash(h, At(enc, start - 1), At(enc, start + len - 1),
                            pow_base, m)
         IN  RollFrom(enc, len, m, pow_base, start + 1, h2,
                      SetDefaultAppend(hs, h2, start))

BuildHashes(enc, len, m) ==
    LET h0 == InitialHash(enc, len, m, 0, 0)
    IN  RollFrom(enc, len, m, PowMod(base, len - 1, m), 1, h0,
                 SetDefaultAppend(<<>>, h0, 0))

\* the indices of encoded the hashing of one length reads
HashReads(len, nn) ==
    (0..(len - 1))
        \cup {start - 1 : start \in 1..(nn - len)}
        \cup {start + len - 1 : start \in 1..(nn - len)}

(***************************************************************************)
(* find_repeated_block: verification and scoring                           *)
(***************************************************************************)
BucketTooSmallOrExact(idxs, mr) == Len(idxs) <= mr

BucketTooSmall(idxs, mr) == Len(idxs) < mr

\* lines 183-185: the position of the first bucket at or after position i
\* that is not skipped, Len(hs) when the iteration is exhausted
RECURSIVE NextBucket(_, _, _)
NextBucket(hs, i, mr) ==
    IF i >= Len(hs) THEN Len(hs)
    ELSE IF BucketTooSmall(At(hs, i).idxs, mr) THEN NextBucket(hs, i + 1, mr)
    ELSE i

RECURSIVE GroupFrom(_, _, _, _)
GroupFrom(enc, len, idxs, seqs) ==
    IF idxs = <<>> THEN seqs
    ELSE LET idx == Head(idxs)
         IN  GroupFrom(enc, len, Tail(idxs),
                       SetDefaultAppend(seqs, Slice(enc, idx, idx + len), idx))

RECURSIVE GroupFirstTokenFrom(_, _, _)
GroupFirstTokenFrom(enc, idxs, seqs) ==
    IF idxs = <<>> THEN seqs
    ELSE GroupFirstTokenFrom(enc, Tail(idxs),
             SetDefaultAppend(seqs, Slice(enc, Head(idxs), Head(idxs) + 1),
                              Head(idxs)))

GroupByFirstToken(enc, len, idxs) == GroupFirstTokenFrom(enc, idxs, <<>>)

GroupByHashOnly(enc, len, idxs) == <<[key |-> <<>>, idxs |-> idxs]>>

GroupBySequence(enc, len, idxs) == GroupFrom(enc, len, idxs, <<>>)

PriorityLengthFirst(score, len, occurrence_count, target) ==
    IF target # NoTarget
    THEN <<-Abs(occurrence_count - target), occurrence_count, len, score>>
    ELSE <<len, score, occurrence_count>>

PriorityCountBeforeLength(score, len, occurrence_count, target) ==
    IF target # NoTarget
    THEN <<-Abs(occurrence_count - target), occurrence_count, len, score>>
    ELSE <<score, occurrence_count, len>>

PriorityTargetLengthFirst(score, len, occurrence_count, target) ==
    IF target # NoTarget
    THEN <<-Abs(occurrence_count - target), len, occurrence_count, score>>
    ELSE <<score, len, occurrence_count>>

Priority(score, len, occurrence_count, target) ==
    IF target # NoTarget
    THEN <<-Abs(occurrence_count - target), occurrence_count, len, score>>
    ELSE <<score, len, occurrence_count>>

TooFewOccurrencesButOne(non_overlapping, mr) == Len(non_overlapping) < mr - 1

\* line 193
TooFewOccurrences(non_overlapping, mr) == Len(non_overlapping) < mr

\* line 204 with >= for >
ReplacesOnTie(bst, priority, bst_priority) ==
    bst = None \/ ~TupleGT(bst_priority, priority)

Replaces(bst, priority, bst_priority) ==
    bst = None \/ TupleGT(priority, bst_priority)

MakeBlockOneBased(nms, len, non_overlapping, target) ==
    [length |-> len,
     occurrences |->
         [k \in 1..Len(non_overlapping) |-> non_overlapping[k] + 1],
     kernel_sequence |->
         [p \in 1..len |-> At(nms, non_overlapping[1] + p - 1)],
     score |-> len * Len(non_overlapping),
     occurrence_count |-> Len(non_overlapping),
     target_occurrences |-> target,
     occurrence_diff |->
         IF target # NoTarget
         THEN Abs(Len(non_overlapping) - target) ELSE NoTarget]

\* line 213 without abs
MakeBlockSignedDiff(nms, len, non_overlapping, target) ==
    [length |-> len,
     occurrences |-> non_overlapping,
     kernel_sequence |->
         [p \in 1..len |-> At(nms, non_overlapping[1] + p - 1)],
     score |-> len * Len(non_overlapping),
     occurrence_count |-> Len(non_overlapping),
     target_occurrences |-> target,
     occurrence_diff |->
         IF target # NoTarget
         THEN target - Len(non_overlapping) ELSE NoTarget]

MakeBlock(nms, len, non_overlapping, target) ==
    [length |-> len,
     occurrences |-> non_overlapping,
     kernel_sequence |->
         [p \in 1..len |-> At(nms, non_overlapping[1] + p - 1)],
     score |-> len * Len(non_overlapping),
     occurrence_count |-> Len(non_overlapping),
     target_occurrences |-> target,
     occurrence_diff |->
         IF target # NoTarget
         THEN Abs(Len(non_overlapping) - target) ELSE NoTarget]

(***************************************************************************)
(* Initial states: a call of find_repeated_block about to run.             *)
(***************************************************************************)
Traces == UNION {[1..k -> KernelNames] : k \in 0..MaxLen}

Idle ==
    /\ encoded = <<>>
    /\ mapping = <<>>
    /\ n = 0
    /\ max_length = 0
    /\ length = 0
    /\ hashes = <<>>
    /\ bucket = 0
    /\ sequences = <<>>
    /\ group = 0
    /\ best = None
    /\ best_priority = <<>>
    /\ result = None
    /\ reads = {}

\* the calls the detection is run on: every short trace with every small
\* parameter choice, and four longer scenarios
DrawnCalls ==
    {[names |-> t, min_block_length |-> a, max_block_length |-> b,
      min_repeats |-> r, target_occurrences |-> tg] :
        t \in Traces, a \in MinBlockChoices, b \in 1..MaxBlock,
        r \in MinRepeatsChoices, tg \in {NoTarget} \cup (1..MaxTarget)}

ScenarioCalls ==
    {[names |-> <<"A", "B", "C", "A", "B", "C", "A", "B", "C", "D">>,
      min_block_length |-> 2, max_block_length |-> 3, min_repeats |-> 2,
      target_occurrences |-> NoTarget],
     [names |-> <<"A", "B", "A", "B", "A", "B", "A", "B">>,
      min_block_length |-> 2, max_block_length |-> 4, min_repeats |-> 2,
      target_occurrences |-> NoTarget],
     [names |-> [i \in 1..19 |-> IF i <= 8 THEN "A" ELSE "B"],
      min_block_length |-> 1, max_block_length |-> 1, min_repeats |-> 2,
      target_occurrences |-> 10],
     [names |-> <<"A", "A", "B", "B", "A", "B", "B">>,
      min_block_length |-> 2, max_block_length |-> 2, min_repeats |-> 2,
      target_occurrences |-> NoTarget]}

NoSelectCall ==
    /\ indices = <<>>
    /\ block_length = 0
    /\ selected = <<>>

NoTable == [columns |-> <<>>, rows |-> <<>>]

NoRuns == runs = <<>>

NoStatsCall ==
    /\ durations = <<>>
    /\ block_info = None
    /\ summary = NoTable
    /\ metadata = NoTable
    /\ duration_reads = {}

Init ==
    /\ \E c \in DrawnCalls \cup ScenarioCalls :
           /\ names = c.names
           /\ min_block_length = c.min_block_length
           /\ max_block_length = c.max_block_length
           /\ min_repeats = c.min_repeats
           /\ target_occurrences = c.target_occurrences
    /\ mod \in HashMods
    /\ Idle
    /\ NoRuns
    /\ NoSelectCall
    /\ NoStatsCall
    /\ pc = "start"

(***************************************************************************)
(* find_repeated_block, lines 149-163: the early returns and the set-up.   *)
(***************************************************************************)
Start ==
    /\ pc = "start"
    /\ IF names = <<>>
       THEN /\ result' = None
            /\ pc' = "done"
            /\ UNCHANGED <<encoded, mapping, n, max_length, length>>
       ELSE LET e == encode_kernel_names(names)
            IN  /\ encoded' = e.encoded
                /\ mapping' = e.mapping
                /\ n' = Len(e.encoded)
                /\ IF TooShort(Len(e.encoded), min_block_length, min_repeats)
                   THEN /\ result' = None
                        /\ pc' = "done"
                        /\ UNCHANGED <<max_length, length>>
                   ELSE /\ max_length' = MaxLength(max_block_length,
                                                   Len(e.encoded), min_repeats)
                        /\ length' = MaxLength(max_block_length,
                                               Len(e.encoded), min_repeats)
                        /\ pc' = "length_loop"
                        /\ UNCHANGED result
    /\ best' = None
    /\ best_priority' = <<>>
    /\ UNCHANGED <<names, min_block_length, max_block_length, min_repeats,
                   target_occurrences, mod, hashes, bucket, sequences, group,
                   reads, indices, block_length, selected>>
    /\ UNCHANGED stats
    /\ UNCHANGED runs

(***************************************************************************)
(* Lines 165-185: one iteration of the length loop builds the hash table   *)
(* and the bucket iteration runs up to the first bucket with at least      *)
(* min_repeats entries.                                                    *)
(***************************************************************************)
HashWindows ==
    /\ pc = "length_loop"
    /\ length >= min_block_length
    /\ reads' = reads \cup HashReads(length, n)
    /\ IF HashReads(length, n) \subseteq 0..(n - 1)
       THEN /\ hashes' = BuildHashes(encoded, length, mod)
            /\ bucket' = NextBucket(BuildHashes(encoded, length, mod), 0,
                                    min_repeats)
            /\ pc' = "bucket_loop"
       ELSE \* encoded[i] raises IndexError
            /\ pc' = "raised"
            /\ UNCHANGED <<hashes, bucket>>
    /\ UNCHANGED <<names, min_block_length, max_block_length, min_repeats,
                   target_occurrences, mod, encoded, mapping, n, max_length,
                   length, sequences, group, best, best_priority, result,
                   indices, block_length, selected>>
    /\ UNCHANGED stats
    /\ UNCHANGED runs

(***************************************************************************)
(* Lines 186-189: the bucket the iteration stands at is split by the       *)
(* windows' actual token sequences.                                        *)
(***************************************************************************)
VerifyBucket ==
    /\ pc = "bucket_loop"
    /\ bucket < Len(hashes)
    /\ LET idxs == At(hashes, bucket).idxs
       IN  /\ sequences' = GroupBySequence(encoded, length, idxs)
           /\ reads' = reads \cup
                  {i \in 0..(n - 1) :
                       \E k \in 1..Len(idxs) :
                           idxs[k] <= i /\ i < idxs[k] + length}
    /\ group' = 0
    /\ pc' = "group_loop"
    /\ UNCHANGED <<names, min_block_length, max_block_length, min_repeats,
                   target_occurrences, mod, encoded, mapping, n, max_length,
                   length, hashes, bucket, best, best_priority, result,
                   indices, block_length, selected>>
    /\ UNCHANGED stats
    /\ UNCHANGED runs

(***************************************************************************)
(* Lines 191-216: the next verified group is reduced to non-overlapping    *)
(* occurrences, scored, and kept if it ranks above the best so far.        *)
(***************************************************************************)
ScoreGroup ==
    /\ pc = "group_loop"
    /\ group < Len(sequences)
    /\ LET occurrences == At(sequences, group).idxs
           non_overlapping == select_non_overlapping(occurrences, length)
           occurrence_count == Len(non_overlapping)
           score == length * Len(non_overlapping)
           priority == Priority(score, length, occurrence_count,
                                target_occurrences)
       IN  IF TooFewOccurrences(non_overlapping, min_repeats)
           THEN UNCHANGED <<best, best_priority>>
           ELSE IF Replaces(best, priority, best_priority)
                THEN /\ best' = MakeBlock(names, length, non_overlapping,
                                          target_occurrences)
                     /\ best_priority' = priority
                ELSE UNCHANGED <<best, best_priority>>
    /\ group' = group + 1
    /\ UNCHANGED <<names, min_block_length, max_block_length, min_repeats,
                   target_occurrences, mod, encoded, mapping, n, max_length,
                   length, hashes, bucket, sequences, result, reads, indices,
                   block_length, selected, pc>>
    /\ UNCHANGED stats
    /\ UNCHANGED runs

\* line 191: the groups of the bucket are exhausted; lines 183-185: on to
\* the next bucket with at least min_repeats entries
EndBucket ==
    /\ pc = "group_loop"
    /\ group >= Len(sequences)
    /\ bucket' = NextBucket(hashes, bucket + 1, min_repeats)
    /\ pc' = "bucket_loop"
    /\ UNCHANGED <<names, min_block_length, max_block_length, min_repeats,
                   target_occurrences, mod, encoded, mapping, n, max_length,
                   length, hashes, sequences, group, best, best_priority,
                   result, reads, indices, block_length, selected>>
    /\ UNCHANGED stats
    /\ UNCHANGED runs

\* the length loop going round without stepping down
EndLengthRetrying ==
    /\ pc = "bucket_loop"
    /\ bucket >= Len(hashes)
    /\ pc' = "length_loop"
    /\ UNCHANGED <<names, min_block_length, max_block_length, min_repeats,
                   target_occurrences, mod, encoded, mapping, n, max_length,
                   length, hashes, bucket, sequences, group, best,
                   best_priority, result, reads, indices, block_length,
                   selected>>
    /\ UNCHANGED stats
    /\ UNCHANGED runs

\* line 183: the buckets are exhausted; line 165: the next length
EndLength ==
    /\ pc = "bucket_loop"
    /\ bucket >= Len(hashes)
    /\ length' = length - 1
    /\ pc' = "length_loop"
    /\ UNCHANGED <<names, min_block_length, max_block_length, min_repeats,
                   target_occurrences, mod, encoded, mapping, n, max_length,
                   hashes, bucket, sequences, group, best, best_priority,
                   result, reads, indices, block_length, selected>>
    /\ UNCHANGED stats
    /\ UNCHANGED runs

\* line 218
Return ==
    /\ pc = "length_loop"
    /\ length < min_block_length
    /\ result' = best
    /\ pc' = "done"
    /\ UNCHANGED <<names, min_block_length, max_block_length, min_repeats,
                   target_occurrences, mod, encoded, mapping, n, max_length,
                   length, hashes, bucket, sequences, group, best,
                   best_priority, reads, indices, block_length, selected>>
    /\ UNCHANGED stats
    /\ UNCHANGED runs

Next ==
    \/ Start
    \/ HashWindows
    \/ VerifyBucket
    \/ ScoreGroup
    \/ EndBucket
    \/ EndLength
    \/ Return

Spec == Init /\ [][Next]_vars

\* a call that has not returned takes its next step: the loops are plain
\* for loops of a single thread that nothing suspends
InitTerminating ==
    /\ names \in UNION {[1..k -> KernelNames] : k \in 0..MaxLiveLen}
    /\ min_block_length \in MinBlockChoices
    /\ max_block_length \in 1..2
    /\ min_repeats \in MinRepeatsChoices
    /\ target_occurrences \in StatsTargetChoices
    /\ mod = 2048
    /\ Idle
    /\ NoRuns
    /\ NoSelectCall
    /\ NoStatsCall
    /\ pc = "start"

SpecTerminating == InitTerminating /\ [][Next]_vars /\ WF_vars(Next)

(***************************************************************************)
(* A direct call of _select_non_overlapping on an arbitrary list of        *)
(* starts.                                                                 *)
(***************************************************************************)
StartLists == UNION {[1..k -> 0..MaxStart] : k \in 0..MaxStarts}

InitSelect ==
    /\ names = <<>>
    /\ min_block_length = 1
    /\ max_block_length = 1
    /\ min_repeats = 2
    /\ target_occurrences = NoTarget
    /\ mod = 1
    /\ Idle
    /\ NoRuns
    /\ indices \in StartLists
    /\ block_length \in 1..MaxBlock
    /\ selected = <<>>
    /\ NoStatsCall
    /\ pc = "select_call"

SelectCall ==
    /\ pc = "select_call"
    /\ selected' = select_non_overlapping(indices, block_length)
    /\ pc' = "select_done"
    /\ UNCHANGED <<names, min_block_length, max_block_length, min_repeats,
                   target_occurrences, mod, encoded, mapping, n, max_length,
                   length, hashes, bucket, sequences, group, best,
                   best_priority, result, reads, indices, block_length>>
    /\ UNCHANGED stats
    /\ UNCHANGED runs

NextSelect == SelectCall

SpecSelect == InitSelect /\ [][NextSelect]_vars

(***************************************************************************)
(* A direct call of _encode_kernel_names on an arbitrary list of names.    *)
(***************************************************************************)
NameLists == UNION {[1..k -> EncoderNames] : k \in 0..MaxEncodeLen}

InitEncode ==
    /\ names \in NameLists
    /\ min_block_length = 1
    /\ max_block_length = 1
    /\ min_repeats = 2
    /\ target_occurrences = NoTarget
    /\ mod = 1
    /\ Idle
    /\ NoRuns
    /\ NoSelectCall
    /\ NoStatsCall
    /\ pc = "encode_call"

EncodeCall ==
    /\ pc = "encode_call"
    /\ encoded' = encode_kernel_names(names).encoded
    /\ mapping' = encode_kernel_names(names).mapping
    /\ pc' = "encode_done"
    /\ UNCHANGED <<names, min_block_length, max_block_length, min_repeats,
                   target_occurrences, mod, n, max_length, length, hashes,
                   bucket, sequences, group, best, best_priority, result,
                   reads, indices, block_length, selected>>
    /\ UNCHANGED stats
    /\ UNCHANGED runs

NextEncode == EncodeCall

SpecEncode == InitEncode /\ [][NextEncode]_vars

(***************************************************************************)
(* summarize_block and block_metadata.  Durations are whole thousandths of *)
(* a microsecond, the resolution extract_kernel_data rounds them to, so    *)
(* round(x, 3) is the nearest whole number.  A value exactly halfway       *)
(* between two thousandths rounds to either: which one depends on the      *)
(* float nearest to it.                                                    *)
(***************************************************************************)
SummaryColumnsWithoutMedian ==
    <<"Position", "Kernel Name", "Avg Duration (us)", "Min Duration (us)",
      "Max Duration (us)", "Occurrences">>

SummaryColumns ==
    <<"Position", "Kernel Name", "Avg Duration (us)", "Median Duration (us)",
      "Min Duration (us)", "Max Duration (us)", "Occurrences">>

EmptySummaryWithBlankRow ==
    [columns |-> SummaryColumns, rows |-> <<[Position |-> 0]>>]

\* lines 224-225
EmptySummary == [columns |-> SummaryColumns, rows |-> <<>>]

\* line 257
StatusTable ==
    [columns |-> <<"Metric", "Value">>,
     rows |-> <<[Metric |-> "Status",
                 Value |-> "No repeated block (length >= 10) found for trace"]>>]

RECURSIVE Sum(_)
Sum(seq) == IF seq = <<>> THEN 0 ELSE Head(seq) + Sum(Tail(seq))

SeqMin(seq) == CHOOSE x \in {seq[i] : i \in 1..Len(seq)} :
                   \A i \in 1..Len(seq) : x <= seq[i]

SeqMax(seq) == CHOOSE x \in {seq[i] : i \in 1..Len(seq)} :
                   \A i \in 1..Len(seq) : x >= seq[i]

\* round(num / den, 3) in thousandths, num >= 0, den > 0
Round3(num, den, up) ==
    IF 2 * (num % den) = den
    THEN (num \div den) + (IF up THEN 1 ELSE 0)
    ELSE (2 * num + den) \div (2 * den)

Mean(seq, up) == Round3(Sum(seq), Len(seq), up)

Median(seq, up) ==
    LET srt == sorted(seq)
        k == Len(seq)
    IN  IF k % 2 = 1 THEN srt[(k + 1) \div 2]
        ELSE Round3(srt[k \div 2] + srt[(k \div 2) + 1], 2, up)

\* lines 232-236, without the offset
RECURSIVE PositionDurationsAtStart(_, _, _)
PositionDurationsAtStart(durs, starts, position) ==
    IF starts = <<>> THEN <<>>
    ELSE (IF Head(starts) + position < Len(durs)
          THEN <<At(durs, Head(starts))>> ELSE <<>>)
         \o PositionDurationsAtStart(durs, Tail(starts), position)

\* lines 232-236
RECURSIVE PositionDurations(_, _, _)
PositionDurations(durs, starts, position) ==
    IF starts = <<>> THEN <<>>
    ELSE (IF Head(starts) + position < Len(durs)
          THEN <<At(durs, Head(starts) + position)>> ELSE <<>>)
         \o PositionDurations(durs, Tail(starts), position)

\* lines 240-248
SummaryRow(position, kernel_name, ds, up) ==
    ("Position" :> position)
        @@ ("Kernel Name" :> kernel_name)
        @@ ("Avg Duration (us)" :> Mean(ds, up))
        @@ ("Median Duration (us)" :> Median(ds, up))
        @@ ("Min Duration (us)" :> SeqMin(ds))
        @@ ("Max Duration (us)" :> SeqMax(ds))
        @@ ("Occurrences" :> Len(ds))

\* lines 231-249: the rows of positions position..length-1
RECURSIVE SummaryRows(_, _, _, _)
SummaryRows(durs, block, position, ups) ==
    IF position >= block.length THEN <<>>
    ELSE LET ds == PositionDurations(durs, block.occurrences, position)
         IN  (IF ds = <<>> THEN <<>>
              ELSE <<SummaryRow(position, block.kernel_sequence[position + 1],
                                ds, ups[position])>>)
             \o SummaryRows(durs, block, position + 1, ups)

\* pd.DataFrame(data): the columns are the keys of the rows
DataFrame(data) ==
    [columns |-> IF data = <<>> THEN <<>> ELSE SummaryColumns, rows |-> data]

SummaryReads(durs, block) ==
    {i \in 0..(Len(durs) - 1) :
        \E k \in 1..Len(block.occurrences) :
            \E position \in 0..(block.length - 1) :
                i = block.occurrences[k] + position}

\* lines 264-265, one row short
BlockDurationShort(durs, start, len) == Sum(Slice(durs, start, start + len - 1))

\* lines 264-265
BlockDuration(durs, start, len) == Sum(Slice(durs, start, start + len))

\* lines 262-266
BlockDurations(durs, block) ==
    [k \in 1..Len(block.occurrences) |->
        BlockDuration(durs, block.occurrences[k], block.length)]

\* line 269: the sample standard deviation, rounded to whole thousandths:
\* the r with (r - 1/2)^2 <= variance < (r + 1/2)^2, where variance is
\* (k * sum of squares - square of sum) / (k * (k - 1))
StdRounded(bd) ==
    IF Len(bd) <= 1 THEN 0
    ELSE LET k == Len(bd)
             num == k * Sum([i \in 1..k |-> bd[i] * bd[i]]) - Sum(bd) * Sum(bd)
             den == k * (k - 1)
         IN  CHOOSE r \in 0..SeqMax(bd) :
                 /\ (r = 0 \/ (2 * r - 1) * (2 * r - 1) * den <= 4 * num)
                 /\ 4 * num < (2 * r + 1) * (2 * r + 1) * den

Metric(name, value) == [Metric |-> name, Value |-> value]

\* lines 270-285
MetadataRows(durs, block, up) ==
    LET bd == BlockDurations(durs, block)
    IN  <<Metric("Trace Name", "trace"),
          Metric("Block Length (kernels)", block.length),
          Metric("Occurrences", block.occurrence_count),
          Metric("First Kernel Index", block.occurrences[1]),
          Metric("Score", block.score),
          Metric("Mean Block Duration (us)", Mean(bd, up)),
          Metric("Std Block Duration (us)", StdRounded(bd)),
          Metric("Min Block Duration (us)", SeqMin(bd)),
          Metric("Max Block Duration (us)", SeqMax(bd))>>
        \o (IF block.target_occurrences # NoTarget
            THEN <<Metric("Target Occurrences", block.target_occurrences),
                   Metric("Occurrence Delta",
                          Abs(block.occurrence_count
                                  - block.target_occurrences))>>
            ELSE <<>>)

MetadataReads(durs, block) ==
    {i \in 0..(Len(durs) - 1) :
        \E k \in 1..Len(block.occurrences) :
            block.occurrences[k] <= i
                /\ i < block.occurrences[k] + block.length}

(***************************************************************************)
(* Direct calls of block_metadata and summarize_block, in the order        *)
(* export_kernel_report makes them (lines 379, 383), on a data frame and a *)
(* block descriptor: None, or a block with ascending starts inside the     *)
(* frame, which may run past its end.                                      *)
(***************************************************************************)
RECURSIVE Ascending(_)
Ascending(S) ==
    IF S = {} THEN <<>>
    ELSE LET low == CHOOSE x \in S : \A y \in S : x <= y
         IN  <<low>> \o Ascending(S \ {low})

BlocksOfLength(rows, len) ==
    {[length |-> len,
      occurrences |-> Ascending(S),
      kernel_sequence |-> ks,
      score |-> len * Cardinality(S),
      occurrence_count |-> Cardinality(S),
      target_occurrences |-> tg,
      occurrence_diff |->
          IF tg # NoTarget THEN Abs(Cardinality(S) - tg) ELSE NoTarget] :
        S \in (SUBSET (0..(rows - 1))) \ {{}},
        ks \in [1..len -> KernelNames],
        tg \in StatsTargetChoices}

BlocksOn(rows) == UNION {BlocksOfLength(rows, len) : len \in 1..MaxStatsBlock}

StatsScenarios ==
    {[durations |-> <<1000, 2000, 3000, 4000, 5000>>,
      block_info |-> [length |-> 1, occurrences |-> <<0, 1, 2, 3, 4>>,
                      kernel_sequence |-> <<"A">>, score |-> 5,
                      occurrence_count |-> 5,
                      target_occurrences |-> NoTarget,
                      occurrence_diff |-> NoTarget]]}

InitStats ==
    /\ \/ \E k \in 0..MaxStatsLen :
              /\ durations \in [1..k -> DurationChoices]
              /\ block_info \in {None} \cup BlocksOn(k)
       \/ \E c \in StatsScenarios :
              /\ durations = c.durations
              /\ block_info = c.block_info
    /\ names = [i \in 1..Len(durations) |-> "A"]
    /\ min_block_length = 1
    /\ max_block_length = 1
    /\ min_repeats = 2
    /\ target_occurrences = NoTarget
    /\ mod = 1
    /\ Idle
    /\ NoRuns
    /\ NoSelectCall
    /\ summary = NoTable
    /\ metadata = NoTable
    /\ duration_reads = {}
    /\ pc = "metadata_call"

\* block_metadata, lines 254-287
BlockMetadata ==
    /\ pc = "metadata_call"
    /\ IF block_info = None
       THEN /\ metadata' = StatusTable
            /\ UNCHANGED duration_reads
       ELSE /\ \E up \in BOOLEAN :
                   metadata' = [columns |-> <<"Metric", "Value">>,
                                rows |-> MetadataRows(durations, block_info,
                                                      up)]
            /\ duration_reads' =
                   duration_reads \cup MetadataReads(durations, block_info)
    /\ pc' = "summarize_call"
    /\ UNCHANGED <<names, min_block_length, max_block_length, min_repeats,
                   target_occurrences, mod, encoded, mapping, n, max_length,
                   length, hashes, bucket, sequences, group, best,
                   best_priority, result, reads, indices, block_length,
                   selected, durations, block_info, summary>>
    /\ UNCHANGED runs

\* summarize_block taking the starts off the block's own list
SummarizeBlockConsumingStarts ==
    /\ pc = "summarize_call"
    /\ block_info # None
    /\ \E ups \in [0..(block_info.length - 1) -> BOOLEAN] :
           summary' = DataFrame(SummaryRows(durations, block_info, 0, ups))
    /\ duration_reads' = duration_reads \cup SummaryReads(durations, block_info)
    /\ block_info' = [block_info EXCEPT !.occurrences = <<>>]
    /\ pc' = "stats_done"
    /\ UNCHANGED <<names, min_block_length, max_block_length, min_repeats,
                   target_occurrences, mod, encoded, mapping, n, max_length,
                   length, hashes, bucket, sequences, group, best,
                   best_priority, result, reads, indices, block_length,
                   selected, durations, metadata>>
    /\ UNCHANGED runs

\* summarize_block, lines 221-251
SummarizeBlock ==
    /\ pc = "summarize_call"
    /\ IF block_info = None
       THEN /\ summary' = EmptySummary
            /\ UNCHANGED duration_reads
       ELSE /\ \E ups \in [0..(block_info.length - 1) -> BOOLEAN] :
                   summary' = DataFrame(SummaryRows(durations, block_info, 0,
                                                    ups))
            /\ duration_reads' =
                   duration_reads \cup SummaryReads(durations, block_info)
    /\ pc' = "stats_done"
    /\ UNCHANGED <<names, min_block_length, max_block_length, min_repeats,
                   target_occurrences, mod, encoded, mapping, n, max_length,
                   length, hashes, bucket, sequences, group, best,
                   best_priority, result, reads, indices, block_length,
                   selected, durations, block_info, metadata>>
    /\ UNCHANGED runs

NextStats ==
    \/ BlockMetadata
    \/ SummarizeBlock

SpecStats == InitStats /\ [][NextStats]_vars

(***************************************************************************)
(* A detection followed by the two tables of its result, on one data       *)
(* frame: find_repeated_block(df), then block_metadata(df, block_info) and *)
(* summarize_block(df, block_info) with the block the detection returned   *)
(* (export_kernel_report, lines 316 and 379-383).                          *)
(***************************************************************************)
\* two duration columns per length: rising by a microsecond, and
\* alternating between the two shortest durations
ReportDurations(k) ==
    {[i \in 1..k |-> 1000 * i], [i \in 1..k |-> 1 + (i % 2)]}

ReportFrames ==
    UNION {{[names |-> t, durations |-> d] :
               t \in [1..k -> KernelNames], d \in ReportDurations(k)} :
           k \in 0..MaxReportLen}

InitReport ==
    /\ \E f \in ReportFrames :
           /\ names = f.names
           /\ durations = f.durations
    /\ min_block_length \in MinBlockChoices
    /\ max_block_length \in 1..MaxReportBlock
    /\ min_repeats = 2
    /\ target_occurrences \in {NoTarget} \cup (1..MaxTarget)
    /\ mod = 2048
    /\ Idle
    /\ NoRuns
    /\ NoSelectCall
    /\ block_info = None
    /\ summary = NoTable
    /\ metadata = NoTable
    /\ duration_reads = {}
    /\ pc = "start"

\* the block returned is the block the tables are made of
PassBlock ==
    /\ pc = "done"
    /\ block_info' = result
    /\ pc' = "metadata_call"
    /\ UNCHANGED <<names, min_block_length, max_block_length, min_repeats,
                   target_occurrences, mod, encoded, mapping, n, max_length,
                   length, hashes, bucket, sequences, group, best,
                   best_priority, result, reads, indices, block_length,
                   selected, durations, summary, metadata, duration_reads>>
    /\ UNCHANGED runs

NextReport ==
    \/ Start
    \/ HashWindows
    \/ VerifyBucket
    \/ ScoreGroup
    \/ EndBucket
    \/ EndLength
    \/ Return
    \/ PassBlock
    \/ BlockMetadata
    \/ SummarizeBlock

SpecReport == InitReport /\ [][NextReport]_vars

(***************************************************************************)
(* Two detection runs side by side (lines 316-317 run one after the other; *)
(* here their steps interleave).  Everything a run works on is a local of  *)
(* its call: runs[i] holds the locals of run i, and a step of run i is the *)
(* step of find_repeated_block at its pc.  Both runs are called with the   *)
(* same arguments.                                                         *)
(***************************************************************************)
SharedMapping(others) == others

\* line 119: mapping = {}, a new dictionary in every call
FreshMapping(others) == <<>>

InitialRun(nms) ==
    [names |-> nms, encoded |-> <<>>, mapping |-> <<>>, n |-> 0, length |-> 0,
     hashes |-> <<>>, bucket |-> 0, sequences |-> <<>>, group |-> 0,
     best |-> None, best_priority |-> <<>>, result |-> None, pc |-> "start"]

\* lines 149-163
RunStart(r, others) ==
    IF r.names = <<>>
    THEN [r EXCEPT !.result = None, !.pc = "done"]
    ELSE LET e == EncodeFrom(r.names, <<>>, FreshMapping(others))
             k == Len(e.encoded)
             r1 == [r EXCEPT !.encoded = e.encoded, !.mapping = e.mapping,
                             !.n = k]
         IN  IF TooShort(k, min_block_length, min_repeats)
             THEN [r1 EXCEPT !.result = None, !.pc = "done"]
             ELSE [r1 EXCEPT !.length = MaxLength(max_block_length, k,
                                                  min_repeats),
                             !.pc = "length_loop"]

\* lines 165-185, and line 218 when the lengths are exhausted
RunLength(r) ==
    IF r.length >= min_block_length
    THEN LET hs == BuildHashes(r.encoded, r.length, mod)
         IN  [r EXCEPT !.hashes = hs,
                       !.bucket = NextBucket(hs, 0, min_repeats),
                       !.pc = "bucket_loop"]
    ELSE [r EXCEPT !.result = r.best, !.pc = "done"]

\* lines 186-189, and line 165 when the buckets are exhausted
RunBucket(r) ==
    IF r.bucket < Len(r.hashes)
    THEN [r EXCEPT !.sequences = GroupBySequence(r.encoded, r.length,
                                                 At(r.hashes, r.bucket).idxs),
                   !.group = 0,
                   !.pc = "group_loop"]
    ELSE [r EXCEPT !.length = r.length - 1, !.pc = "length_loop"]

\* lines 191-216, and lines 183-185 when the groups are exhausted
RunGroup(r) ==
    IF r.group < Len(r.sequences)
    THEN LET non_overlapping ==
                 select_non_overlapping(At(r.sequences, r.group).idxs,
                                        r.length)
             priority == Priority(r.length * Len(non_overlapping), r.length,
                                  Len(non_overlapping), target_occurrences)
             r1 == [r EXCEPT !.group = r.group + 1]
         IN  IF TooFewOccurrences(non_overlapping, min_repeats)
             THEN r1
             ELSE IF Replaces(r.best, priority, r.best_priority)
                  THEN [r1 EXCEPT !.best = MakeBlock(r.names, r.length,
                                                     non_overlapping,
                                                     target_occurrences),
                                  !.best_priority = priority]
                  ELSE r1
    ELSE [r EXCEPT !.bucket = NextBucket(r.hashes, r.bucket + 1, min_repeats),
                   !.pc = "bucket_loop"]

RunStep(r, others) ==
    CASE r.pc = "start" -> RunStart(r, others)
      [] r.pc = "length_loop" -> RunLength(r)
      [] r.pc = "bucket_loop" -> RunBucket(r)
      [] r.pc = "group_loop" -> RunGroup(r)

RunTraces == UNION {[1..k -> KernelNames] : k \in 0..MaxRunLen}

RunScenarios ==
    {<<InitialRun(<<"A", "B", "A", "B">>), InitialRun(<<"B", "B", "A", "A">>)>>,
     <<InitialRun(<<"B", "A", "B", "A", "B">>), InitialRun(<<"A", "A", "A", "A">>)>>}

InitTwoRuns ==
    /\ runs \in {<<InitialRun(a), InitialRun(b)>> : a, b \in RunTraces}
                    \cup RunScenarios
    /\ names = <<>>
    /\ min_block_length = 1
    /\ max_block_length = 2
    /\ min_repeats = 2
    /\ target_occurrences = NoTarget
    /\ mod = 2048
    /\ Idle
    /\ NoSelectCall
    /\ NoStatsCall
    /\ pc = "two_runs"

\* one step of run i; the dictionary of the other run is what a run would
\* see if the encoder's dictionary were shared
StepRun(i) ==
    /\ pc = "two_runs"
    /\ runs[i].pc # "done"
    /\ runs' = [runs EXCEPT ![i] = RunStep(runs[i], runs[3 - i].mapping)]
    /\ UNCHANGED <<names, min_block_length, max_block_length, min_repeats,
                   target_occurrences, mod, encoded, mapping, n, max_length,
                   length, hashes, bucket, sequences, group, best,
                   best_priority, result, reads, indices, block_length,
                   selected, pc>>
    /\ UNCHANGED stats

NextTwoRuns ==
    \/ StepRun(1)
    \/ StepRun(2)

SpecTwoRuns == InitTwoRuns /\ [][NextTwoRuns]_vars

(***************************************************************************)
(* What the properties are stated in: the trace's windows of names, the    *)
(* candidates a detector that compares windows exactly would consider.     *)
(***************************************************************************)
Range(seq) == {seq[i] : i \in 1..Len(seq)}

NameWindow(s, len) == SubSeq(names, s + 1, s + len)

StartsOf(w) ==
    {s \in 0..(Len(names) - Len(w)) : NameWindow(s, Len(w)) = w}

SetMin(S) == CHOOSE x \in S : \A y \in S : x <= y

RECURSIVE GreedySet(_, _)
GreedySet(S, len) ==
    IF S = {} THEN {}
    ELSE {SetMin(S)} \cup GreedySet({s \in S : s >= SetMin(S) + len}, len)

Spaced(T, len) == \A x \in T : \A y \in T : x < y => y >= x + len

SetMax(S) == CHOOSE x \in S : \A y \in S : x >= y

MaxSpaced(S, len) ==
    SetMax({Cardinality(T) : T \in {U \in SUBSET S : Spaced(U, len)}})

Returned == pc = "done" /\ result # None

(***************************************************************************)
(* C1: the occurrences of a returned candidate are strictly ascending and  *)
(* consecutive ones are at least length apart.                             *)
(***************************************************************************)
C1_OccurrencesNeverOverlap ==
    Returned =>
        \A i \in 1..(Len(result.occurrences) - 1) :
            /\ result.occurrences[i] < result.occurrences[i + 1]
            /\ result.occurrences[i + 1] >=
                   result.occurrences[i] + result.length

\* a candidate was returned for which an overlapping window had to be dropped
C1_Witness ==
    /\ Returned
    /\ Len(result.occurrences) >= 3
    /\ result.length >= 2
    /\ StartsOf(result.kernel_sequence) # Range(result.occurrences)

(***************************************************************************)
(* C2: at every occurrence of a returned candidate the names are the       *)
(* candidate's kernel_sequence, whatever the hash modulus.                 *)
(***************************************************************************)
C2_OccurrencesMatchExactly ==
    Returned =>
        \A k \in 1..Len(result.occurrences) :
            \A p \in 0..(result.length - 1) :
                At(names, result.occurrences[k] + p) =
                    result.kernel_sequence[p + 1]

\* a candidate returned under the constant hash, with a different window of
\* the same length in its bucket
C2_Witness ==
    /\ Returned
    /\ mod = 1
    /\ \E s \in 0..(Len(names) - result.length) :
           NameWindow(s, result.length) # result.kernel_sequence

(***************************************************************************)
(* C10: _select_non_overlapping returns as many starts as any subset of    *)
(* the given starts with pairwise distance >= block_length has, and keeps  *)
(* a start that lies exactly block_length after a selected one.            *)
(***************************************************************************)
C10_GreedyIsCountOptimal ==
    pc = "select_done" =>
        /\ Range(selected) \subseteq Range(indices)
        /\ Cardinality(Range(selected)) = Len(selected)
        /\ Spaced(Range(selected), block_length)
        /\ Len(selected) = MaxSpaced(Range(indices), block_length)
        /\ \A idx \in Range(indices) :
               (idx - block_length) \in Range(selected) =>
                   idx \in Range(selected)

\* a call that dropped a start and kept one exactly block_length after another
C10_Witness ==
    /\ pc = "select_done"
    /\ Cardinality(Range(selected)) < Cardinality(Range(indices))
    /\ \E i \in 1..(Len(selected) - 1) :
           selected[i + 1] = selected[i] + block_length

(***************************************************************************)
(* The valid candidates: a length of the range tried and a window of that  *)
(* length whose greedy occurrence set has at least min_repeats entries.    *)
(***************************************************************************)
LengthRange ==
    min_block_length..Min2(max_block_length, Len(names) \div min_repeats)

CandidatesOfLength(len) ==
    {c \in {[length |-> len,
             occurrences |-> GreedySet(StartsOf(NameWindow(s, len)), len)] :
                s \in 0..(Len(names) - len)} :
        Cardinality(c.occurrences) >= min_repeats}

ValidCandidates == UNION {CandidatesOfLength(len) : len \in LengthRange}

LexGE(a, b) ==
    \/ a = b
    \/ \E i \in 1..Len(a) : a[i] > b[i] /\ \A j \in 1..(i - 1) : a[j] = b[j]

RankByScore(len, count) == <<len * count, len, count>>

RankByTarget(len, count) ==
    <<-Abs(count - target_occurrences), count, len, len * count>>

AsCandidate(block) ==
    [length |-> block.length, occurrences |-> Range(block.occurrences)]

\* the trace is k copies of its first len names
Tiles(len) ==
    /\ len >= 1
    /\ Len(names) % len = 0
    /\ \A i \in 1..(Len(names) - len) : names[i] = names[i + len]

\* len is the length of a unit U with the trace = U^k, k >= min_repeats,
\* min_block_length <= len <= max_block_length, and no target was given
RepeatedUnit(len) ==
    /\ pc = "done"
    /\ target_occurrences = NoTarget
    /\ names # <<>>
    /\ len \in min_block_length..max_block_length
    /\ Tiles(len)
    /\ Len(names) \div len >= min_repeats

(***************************************************************************)
(* C3 as stated: a trace of k >= min_repeats copies of a unit of length L  *)
(* within the block-length limits yields a candidate of length L with at   *)
(* least min_repeats occurrences, each of which is the unit.               *)
(***************************************************************************)
C3_ReturnsTheUnitLength ==
    \A len \in 1..Len(names) :
        RepeatedUnit(len) =>
            /\ result # None
            /\ result.length = len
            /\ result.occurrence_count >= min_repeats
            /\ \A k \in 1..Len(result.occurrences) :
                   NameWindow(result.occurrences[k], len) = NameWindow(0, len)

(***************************************************************************)
(* C3 amended: such a trace yields a candidate whose length is the largest *)
(* length of the range tried of which the trace is a whole number of       *)
(* copies (L itself when no longer one exists); its occurrences tile the   *)
(* trace, so score = n, and every occurrence begins with the unit.         *)
(***************************************************************************)
C3_ReturnsLongestTilingUnit ==
    \A len \in 1..Len(names) :
        RepeatedUnit(len) =>
            /\ result # None
            /\ result.length \in LengthRange
            /\ Tiles(result.length)
            /\ \A longer \in LengthRange :
                   Tiles(longer) => longer <= result.length
            /\ result.length >= len
            /\ result.occurrence_count >= min_repeats
            /\ result.score = Len(names)
            /\ result.occurrences =
                   [k \in 1..(Len(names) \div result.length) |->
                        (k - 1) * result.length]
            /\ result.kernel_sequence = NameWindow(0, result.length)
            /\ \A k \in 1..Len(result.occurrences) :
                   NameWindow(result.occurrences[k], len) = NameWindow(0, len)

\* four copies of the unit A,B with max_block_length 4: the block returned
\* is A,B,A,B
C3_Witness ==
    /\ RepeatedUnit(2)
    /\ NameWindow(0, 2) = <<"A", "B">>
    /\ Len(names) = 8
    /\ result.length = 4
    /\ result.occurrences = <<0, 4>>

(***************************************************************************)
(* C4: without target_occurrences the returned candidate is a valid        *)
(* candidate whose tuple (score, length, occurrence_count) is the greatest *)
(* among all valid candidates; three repeats of A,B,C followed by D give   *)
(* length 3, occurrences 0,3,6 and kernel_sequence A,B,C.                  *)
(***************************************************************************)
C4_GreatestScoreTuple ==
    (Returned /\ target_occurrences = NoTarget) =>
        /\ AsCandidate(result) \in ValidCandidates
        /\ result.occurrence_count = Len(result.occurrences)
        /\ result.score = result.length * result.occurrence_count
        /\ \A c \in ValidCandidates :
               LexGE(RankByScore(result.length, result.occurrence_count),
                     RankByScore(c.length, Cardinality(c.occurrences)))
        /\ (names = <<"A", "B", "C", "A", "B", "C", "A", "B", "C", "D">>
               /\ min_block_length = 2 /\ max_block_length = 3
               /\ min_repeats = 2) =>
                   /\ result.length = 3
                   /\ result.occurrences = <<0, 3, 6>>
                   /\ result.kernel_sequence = <<"A", "B", "C">>

\* the scenario has run, with valid candidates of both lengths to rank
C4_Witness ==
    /\ Returned
    /\ target_occurrences = NoTarget
    /\ names = <<"A", "B", "C", "A", "B", "C", "A", "B", "C", "D">>
    /\ mod = 2048
    /\ \E c \in ValidCandidates : c.length = 2
    /\ \E c \in ValidCandidates : c.length = 3

(***************************************************************************)
(* C5: with target_occurrences = T the returned candidate is a valid       *)
(* candidate whose tuple (-|count - T|, count, length, score) is the       *)
(* greatest among all valid candidates: its |count - T| is minimal, and    *)
(* among the equally close ones it has the most occurrences.               *)
(***************************************************************************)
C5_GreatestTargetTuple ==
    (Returned /\ target_occurrences # NoTarget) =>
        /\ AsCandidate(result) \in ValidCandidates
        /\ result.target_occurrences = target_occurrences
        /\ result.occurrence_diff =
               Abs(result.occurrence_count - target_occurrences)
        /\ \A c \in ValidCandidates :
               /\ LexGE(RankByTarget(result.length, result.occurrence_count),
                        RankByTarget(c.length, Cardinality(c.occurrences)))
               /\ result.occurrence_diff <=
                      Abs(Cardinality(c.occurrences) - target_occurrences)
               /\ result.occurrence_diff =
                      Abs(Cardinality(c.occurrences) - target_occurrences)
                  => result.occurrence_count >= Cardinality(c.occurrences)
        /\ (Len(names) = 19 /\ target_occurrences = 10) =>
               result.occurrence_count = 11

\* a shorter candidate with more occurrences won against a longer one that
\* is equally close to the target
C5_Witness ==
    /\ Returned
    /\ target_occurrences # NoTarget
    /\ \E c \in ValidCandidates :
           /\ c.length > result.length
           /\ Cardinality(c.occurrences) < result.occurrence_count
           /\ Abs(Cardinality(c.occurrences) - target_occurrences) =
                  result.occurrence_diff

(***************************************************************************)
(* C6: the result is None exactly when no length of the range tried has a  *)
(* window with at least min_repeats pairwise non-overlapping occurrences.  *)
(***************************************************************************)
SomeWindowRepeats ==
    \E len \in LengthRange :
        \E s \in 0..(Len(names) - len) :
            MaxSpaced(StartsOf(NameWindow(s, len)), len) >= min_repeats

C6_NoneIffNothingRepeats ==
    pc = "done" => (result = None <=> ~SomeWindowRepeats)

\* the loops ran over a trace in which a window occurs twice, yet nothing
\* repeats often enough without overlap
C6_Witness ==
    /\ pc = "done"
    /\ result = None
    /\ reads # {}
    /\ \E len \in LengthRange :
           \E s \in 0..(Len(names) - len) :
               Cardinality(StartsOf(NameWindow(s, len))) >= 2

(***************************************************************************)
(* C7: a trace shorter than min_block_length * min_repeats returns None    *)
(* from the guard: the length loop is never entered, no hash table is      *)
(* built and no token is read.                                             *)
(***************************************************************************)
C7_ShortTraceReturnsNone ==
    Len(names) < min_block_length * min_repeats =>
        /\ pc \in {"start", "done"}
        /\ hashes = <<>>
        /\ reads = {}
        /\ pc = "done" => result = None

\* a non-empty trace that is too short has returned
C7_Witness ==
    /\ pc = "done"
    /\ names # <<>>
    /\ Len(names) >= min_block_length
    /\ Len(names) < min_block_length * min_repeats
    /\ result = None

(***************************************************************************)
(* C8 as stated: with or without target_occurrences, no valid candidate    *)
(* has the returned candidate's score and a greater length.                *)
(***************************************************************************)
C8_LongerWinsScoreTies ==
    Returned =>
        ~\E c \in ValidCandidates :
            /\ c.length * Cardinality(c.occurrences) = result.score
            /\ c.length > result.length

(***************************************************************************)
(* C8 amended: when no target_occurrences is given, no valid candidate has *)
(* the returned candidate's score and a greater length.                    *)
(***************************************************************************)
C8_LongerWinsScoreTiesWithoutTarget ==
    (Returned /\ target_occurrences = NoTarget) =>
        ~\E c \in ValidCandidates :
            /\ c.length * Cardinality(c.occurrences) = result.score
            /\ c.length > result.length

\* a score tie between two lengths was decided for the longer one
C8_Witness ==
    /\ Returned
    /\ target_occurrences = NoTarget
    /\ \E c \in ValidCandidates :
           /\ c.length * Cardinality(c.occurrences) = result.score
           /\ c.length < result.length

(***************************************************************************)
(* C9: length, occurrence_count and score of the result (and whether it is *)
(* None) are those of a detector that compares windows exactly and takes   *)
(* the greatest ranking tuple, for every hash modulus.                     *)
(***************************************************************************)
Rank(c) ==
    IF target_occurrences # NoTarget
    THEN RankByTarget(c.length, Cardinality(c.occurrences))
    ELSE RankByScore(c.length, Cardinality(c.occurrences))

ReferenceOutcome ==
    IF ValidCandidates = {} THEN <<0, 0, 0>>
    ELSE LET c == CHOOSE x \in ValidCandidates :
                      \A y \in ValidCandidates : LexGE(Rank(x), Rank(y))
         IN  <<c.length, Cardinality(c.occurrences),
               c.length * Cardinality(c.occurrences)>>

C9_OutcomeIndependentOfHash ==
    pc = "done" =>
        <<result.length, result.occurrence_count, result.score>> =
            ReferenceOutcome

\* a candidate of the last length tried was returned from a bucket of a
\* narrow hash that also held a different window
C9_Witness ==
    /\ Returned
    /\ mod = 4
    /\ result.length = min_block_length
    /\ \E i \in 1..Len(hashes) :
           /\ result.occurrences[1] \in Range(hashes[i].idxs)
           /\ \E s \in Range(hashes[i].idxs) :
                  NameWindow(s, result.length) # result.kernel_sequence

(***************************************************************************)
(* C11: the occurrence_count of a returned candidate is the number of its  *)
(* occurrences and is at least min_repeats.                                *)
(***************************************************************************)
C11_CountIsNumberOfOccurrences ==
    Returned =>
        /\ result.occurrence_count = Len(result.occurrences)
        /\ result.occurrence_count = Cardinality(Range(result.occurrences))
        /\ result.occurrence_count >= min_repeats

\* a candidate was returned while another window of a length tried occurs
\* min_repeats times but not that often without overlap, and was discarded
C11_Witness ==
    /\ Returned
    /\ \E len \in LengthRange :
           \E s \in 0..(Len(names) - len) :
               /\ Cardinality(StartsOf(NameWindow(s, len))) >= min_repeats
               /\ Cardinality(GreedySet(StartsOf(NameWindow(s, len)), len))
                      < min_repeats

(***************************************************************************)
(* C12: every occurrence of a returned candidate starts at 0 or later and  *)
(* ends within the trace.                                                  *)
(***************************************************************************)
C12_OccurrencesLieInTrace ==
    Returned =>
        \A k \in 1..Len(result.occurrences) :
            /\ 0 <= result.occurrences[k]
            /\ result.occurrences[k] + result.length <= Len(names)
            /\ result.occurrences[k] + result.length <= n

\* the occurrences of the returned candidate reach from the first to the
\* last position of the trace
C12_Witness ==
    /\ Returned
    /\ result.occurrences[1] = 0
    /\ result.occurrences[Len(result.occurrences)] + result.length =
           Len(names)
    /\ result.score < Len(names)

(***************************************************************************)
(* C13: only lengths from min_block_length to min(max_block_length,        *)
(* n div min_repeats) are hashed, scored or returned, and the result is    *)
(* None when max_block_length < min_block_length.                          *)
(***************************************************************************)
C13_OnlyLengthsInRange ==
    /\ pc \in {"bucket_loop", "group_loop", "raised"} => length \in LengthRange
    /\ best # None => best.length \in LengthRange
    /\ Returned => result.length \in LengthRange
    /\ (pc = "done" /\ max_block_length < min_block_length) => result = None

\* the returned candidate has the length the trace clamps max_block_length to
C13_Witness ==
    /\ Returned
    /\ Len(names) \div min_repeats < max_block_length
    /\ result.length = Len(names) \div min_repeats
    /\ result.length > min_block_length

(***************************************************************************)
(* C14: the call never raises: every index of the token sequence it reads  *)
(* lies in 0..n-1, the IndexError state is never entered, and what is      *)
(* returned is None or a candidate.                                        *)
(***************************************************************************)
C14_NeverRaises ==
    /\ pc \in {"start", "length_loop", "bucket_loop", "group_loop", "done"}
    /\ reads \subseteq 0..(Len(names) - 1)
    /\ pc # "raised"
    /\ Returned =>
           /\ result.length >= 1
           /\ Len(result.kernel_sequence) = result.length
           /\ result.occurrences # <<>>

\* a call with max_block_length beyond the trace has returned after reading
\* every token
C14_Witness ==
    /\ pc = "done"
    /\ names # <<>>
    /\ max_block_length > Len(names)
    /\ reads = 0..(Len(names) - 1)

(***************************************************************************)
(* C16: the encoder returns one token per name, equal tokens exactly for   *)
(* equal names, the tokens 1..k for k distinct names, numbered in order of *)
(* first appearance; no names give no tokens and an empty map.             *)
(***************************************************************************)
FirstIndex(name) ==
    CHOOSE i \in 1..Len(names) :
        names[i] = name /\ \A j \in 1..(i - 1) : names[j] # name

C16_EncoderNumbersNamesInOrder ==
    pc = "encode_done" =>
        /\ Len(encoded) = Len(names)
        /\ \A i \in 1..Len(names) : \A j \in 1..Len(names) :
               encoded[i] = encoded[j] <=> names[i] = names[j]
        /\ Range(encoded) = 1..Cardinality(Range(names))
        /\ DOMAIN mapping = Range(names)
        /\ \A i \in 1..Len(names) :
               /\ mapping[names[i]] = encoded[i]
               /\ encoded[i] =
                      Cardinality({names[j] : j \in 1..FirstIndex(names[i])})
        /\ names = <<>> => (encoded = <<>> /\ DOMAIN mapping = {})

\* three distinct names, not first seen in alphabetical order, one repeated
C16_Witness ==
    /\ pc = "encode_done"
    /\ Cardinality(Range(names)) = 3
    /\ Len(names) > 3
    /\ names[1] = "C"
    /\ encoded[1] = 1
    /\ \E i \in 1..Len(names) : names[i] = "A" /\ encoded[i] = 3

(***************************************************************************)
(* The statistics tables, stated over the frame's durations directly.      *)
(***************************************************************************)
StatsDone == pc = "stats_done"

\* the sum of the durations at the 0-based positions P
RECURSIVE SumAt(_)
SumAt(P) ==
    IF P = {} THEN 0
    ELSE LET i == CHOOSE x \in P : TRUE
         IN  durations[i + 1] + SumAt(P \ {i})

\* the starts of the block whose offset p lies inside the frame
StartsReaching(p) ==
    {s \in Range(block_info.occurrences) : s + p < Len(durations)}

DurationsAtOffset(p) == {durations[s + p + 1] : s \in StartsReaching(p)}

RowsOfPosition(p) ==
    {i \in 1..Len(summary.rows) : summary.rows[i]["Position"] = p}

MetricRows(name) ==
    {i \in 1..Len(metadata.rows) : metadata.rows[i].Metric = name}

MetricValue(name) == metadata.rows[CHOOSE i \in MetricRows(name) : TRUE].Value

\* the total duration of the occurrence starting at s
OccurrenceTotal(s) ==
    SumAt({i \in s..(s + block_info.length - 1) : i < Len(durations)})

OccurrenceTotals == {OccurrenceTotal(s) : s \in Range(block_info.occurrences)}

C18_NoneSummaryHasDocumentedColumns ==
    (StatsDone /\ block_info = None)
        => /\ Len(summary.rows) = 0
           /\ summary.columns =
                  <<"Position", "Kernel Name", "Avg Duration (us)",
                    "Median Duration (us)", "Min Duration (us)",
                    "Max Duration (us)", "Occurrences">>
           /\ duration_reads = {}

C18_Witness ==
    /\ StatsDone
    /\ block_info = None
    /\ Len(durations) >= 2
    /\ Len(summary.columns) = 7

\* C19 as stated: every offset of the block has a row that reports the
\* kernel name, the number of occurrences reaching the offset, and the exact
\* minimum, maximum and arithmetic mean of their durations.
C19_RowsReportExactMean ==
    (StatsDone /\ block_info # None)
        => \A p \in 0..(block_info.length - 1) :
               \E i \in RowsOfPosition(p) :
                   LET row == summary.rows[i]
                   IN  /\ row["Kernel Name"] = block_info.kernel_sequence[p + 1]
                       /\ row["Occurrences"] = Cardinality(StartsReaching(p))
                       /\ row["Min Duration (us)"] = SetMin(DurationsAtOffset(p))
                       /\ row["Max Duration (us)"] = SetMax(DurationsAtOffset(p))
                       /\ row["Avg Duration (us)"] * Cardinality(StartsReaching(p))
                              = SumAt({s + p : s \in StartsReaching(p)})

\* C19: an offset of the block has a row exactly when some occurrence
\* reaches it inside the frame, and then one row; the row reports the kernel
\* name, the number of occurrences reaching the offset, the minimum and the
\* maximum of their durations, and their arithmetic mean rounded to three
\* decimals (within half a thousandth of the mean).  Rows come in
\* increasing offset.  Durations 1, 2, 3, 4, 5 of five occurrences of a
\* length-1 block give mean 3, min 1, max 5, occurrences 5.
C19_RowsReportRoundedMean ==
    (StatsDone /\ block_info # None)
        => /\ \A i \in 1..Len(summary.rows) :
                  summary.rows[i]["Position"] \in 0..(block_info.length - 1)
           /\ \A i, j \in 1..Len(summary.rows) :
                  i < j => summary.rows[i]["Position"]
                               < summary.rows[j]["Position"]
           /\ \A p \in 0..(block_info.length - 1) :
                  IF StartsReaching(p) = {}
                  THEN RowsOfPosition(p) = {}
                  ELSE /\ Cardinality(RowsOfPosition(p)) = 1
                       /\ \A i \in RowsOfPosition(p) :
                              LET row == summary.rows[i]
                                  cnt == Cardinality(StartsReaching(p))
                                  total == SumAt({s + p : s \in StartsReaching(p)})
                              IN  /\ row["Kernel Name"]
                                         = block_info.kernel_sequence[p + 1]
                                  /\ row["Occurrences"] = cnt
                                  /\ row["Min Duration (us)"]
                                         = SetMin(DurationsAtOffset(p))
                                  /\ row["Max Duration (us)"]
                                         = SetMax(DurationsAtOffset(p))
                                  /\ 2 * Abs(row["Avg Duration (us)"] * cnt
                                                 - total) <= cnt
           /\ (durations = <<1000, 2000, 3000, 4000, 5000>>
                   /\ block_info.length = 1
                   /\ block_info.occurrences = <<0, 1, 2, 3, 4>>)
                  => /\ Len(summary.rows) = 1
                     /\ summary.rows[1]["Avg Duration (us)"] = 3000
                     /\ summary.rows[1]["Min Duration (us)"] = 1000
                     /\ summary.rows[1]["Max Duration (us)"] = 5000
                     /\ summary.rows[1]["Occurrences"] = 5

\* three occurrences whose mean is no whole thousandth, in a block whose
\* second offset one occurrence does not reach
C19_Witness ==
    /\ StatsDone
    /\ block_info # None
    /\ block_info.length = 2
    /\ Len(summary.rows) = 2
    /\ summary.rows[1]["Occurrences"] = 3
    /\ summary.rows[1]["Avg Duration (us)"] * 3
           # SumAt({s : s \in StartsReaching(0)})
    /\ summary.rows[2]["Occurrences"] = 2
    /\ summary.rows[2]["Min Duration (us)"] < summary.rows[2]["Max Duration (us)"]

\* C20: for a block, block_metadata reports once each the block's length,
\* occurrence_count, smallest start and score, and as Min and Max Block
\* Duration the least and greatest total duration of an occurrence, the
\* total being the sum of the durations at its positions s..s+length-1.
C20_MetadataReportsBlockAndExtremes ==
    (StatsDone /\ block_info # None)
        => /\ \A name \in {"Block Length (kernels)", "Occurrences",
                           "First Kernel Index", "Score",
                           "Min Block Duration (us)",
                           "Max Block Duration (us)"} :
                  Cardinality(MetricRows(name)) = 1
           /\ MetricValue("Block Length (kernels)") = block_info.length
           /\ MetricValue("Occurrences") = block_info.occurrence_count
           /\ MetricValue("First Kernel Index")
                  = SetMin(Range(block_info.occurrences))
           /\ MetricValue("Score") = block_info.score
           /\ MetricValue("Min Block Duration (us)") = SetMin(OccurrenceTotals)
           /\ MetricValue("Max Block Duration (us)") = SetMax(OccurrenceTotals)

C20_Witness ==
    /\ StatsDone
    /\ block_info # None
    /\ block_info.length = 2
    /\ Len(block_info.occurrences) >= 2
    /\ \A s \in Range(block_info.occurrences) : s + 2 <= Len(durations)
    /\ MetricValue("First Kernel Index") > 0
    /\ MetricValue("Min Block Duration (us)")
           < MetricValue("Max Block Duration (us)")

(***************************************************************************)
(* C21: find_repeated_block, summarize_block and block_metadata leave      *)
(* their inputs as they were: no step of a detection or of the two tables  *)
(* changes the names or the durations of the frame or an argument of the   *)
(* detection, and no step of the two tables changes the block descriptor   *)
(* they were given or the block the detection returned.                    *)
(***************************************************************************)
C21_InputsUnchanged ==
    [][/\ names' = names
       /\ durations' = durations
       /\ <<min_block_length, max_block_length, min_repeats,
            target_occurrences>>' =
              <<min_block_length, max_block_length, min_repeats,
                target_occurrences>>
       /\ pc \in {"metadata_call", "summarize_call"}
              => (block_info' = block_info /\ result' = result)]_vars

\* both tables were made of a block the detection found, from durations read
C21_Witness ==
    /\ StatsDone
    /\ block_info # None
    /\ block_info = result
    /\ Len(names) = Len(durations)
    /\ duration_reads # {}
    /\ Len(summary.rows) = block_info.length

(***************************************************************************)
(* C22: two detection runs share no mutable state.  Under every            *)
(* interleaving of their steps, a run that has finished has returned what  *)
(* the same call returns when it runs alone from start to end, and a run   *)
(* past its encoding holds the tokens and the dictionary the encoder gives *)
(* its own names alone, whatever the other run has encoded.                *)
(***************************************************************************)
RECURSIVE RunToEnd(_)
RunToEnd(r) == IF r.pc = "done" THEN r ELSE RunToEnd(RunStep(r, <<>>))

RunAlone(nms) == RunToEnd(InitialRun(nms))

C22_RunsDoNotInterfere ==
    \A i \in DOMAIN runs :
        /\ runs[i].pc = "done" => runs[i].result = RunAlone(runs[i].names).result
        /\ (runs[i].pc # "start" /\ runs[i].names # <<>>)
               => /\ runs[i].mapping = encode_kernel_names(runs[i].names).mapping
                  /\ runs[i].encoded = encode_kernel_names(runs[i].names).encoded

\* the second run has found a block while the first, encoded after it and
\* naming its kernels in another order, is still hashing
C22_Witness ==
    /\ pc = "two_runs"
    /\ runs[2].pc = "done"
    /\ runs[2].result # None
    /\ runs[1].pc = "bucket_loop"
    /\ runs[1].best = None
    /\ runs[1].names # <<>>
    /\ runs[2].names[1] # runs[1].names[1]
    /\ runs[1].encoded[1] = 1
    /\ runs[2].encoded[1] = 1

(***************************************************************************)
(* C23: for the length being tried and every window start s in             *)
(* 0..n-length, the hash the window was filed under, rolled from the hash  *)
(* of the window before it, is the polynomial hash computed directly: the  *)
(* sum over i in 0..length-1 of token[s+i] * base^(length-1-i), modulo the *)
(* power of two mod.  Every window is filed exactly once and a hash has    *)
(* one bucket, so windows with equal tokens, which have equal hashes, lie  *)
(* in the same bucket.                                                     *)
(***************************************************************************)
RECURSIVE Filed(_)
Filed(hs) == IF hs = <<>> THEN 0 ELSE Len(Head(hs).idxs) + Filed(Tail(hs))

RECURSIVE DirectSum(_, _, _)
DirectSum(s, len, i) ==
    IF i >= len THEN 0
    ELSE encoded[s + i + 1] * PowMod(base, len - 1 - i, mod)
             + DirectSum(s, len, i + 1)

DirectHash(s, len) == DirectSum(s, len, 0) % mod

\* the table of the current length has just been built: no bucket before
\* the one the iteration stands at was large enough to be looked into
HashesBuilt ==
    /\ pc = "bucket_loop"
    /\ \A i \in 1..Len(hashes) :
           i <= bucket => Len(hashes[i].idxs) < min_repeats

BucketsOf(s) == {i \in 1..Len(hashes) : s \in Range(hashes[i].idxs)}

C23_RolledHashIsDirectHash ==
    HashesBuilt =>
        /\ \A i \in 1..Len(hashes) :
               /\ \A k \in 1..Len(hashes[i].idxs) :
                      /\ hashes[i].idxs[k] \in 0..(n - length)
                      /\ hashes[i].key = DirectHash(hashes[i].idxs[k], length)
               /\ \A j \in 1..Len(hashes) : hashes[j].key = hashes[i].key => j = i
        /\ Filed(hashes) = n - length + 1
        /\ \A s \in 0..(n - length) : BucketsOf(s) # {}
        /\ \A s, t \in 0..(n - length) :
               (s < t /\ Slice(encoded, s, s + length)
                             = Slice(encoded, t, t + length))
                   => BucketsOf(s) = BucketsOf(t)

\* the widest hash, rolled at least three times over windows of two or
\* more tokens, with two equal windows and two different ones
C23_Witness ==
    /\ pc = "group_loop"
    /\ mod = 2048
    /\ length >= 2
    /\ n - length >= 3
    /\ Len(hashes) >= 2
    /\ \E i \in 1..Len(hashes) : Len(hashes[i].idxs) >= 2

(***************************************************************************)
(* C24: during a detection the best-so-far candidate is replaced only by a *)
(* candidate whose ranking tuple is strictly greater than the current      *)
(* best's (or when there is no best yet): each change of the best-so-far   *)
(* ranking tuple is a strict increase to the tuple of the candidate being  *)
(* scored, and a candidate whose tuple equals the current best's leaves    *)
(* the best as it is.                                                      *)
(***************************************************************************)
Scoring == pc = "group_loop" /\ group < Len(sequences)

\* the candidate of the group being scored
ScoredCandidate ==
    [length |-> length,
     occurrences |->
         GreedySet(StartsOf(NameWindow(At(sequences, group).idxs[1], length)),
                   length)]

StrictlyGreater(a, b) == LexGE(a, b) /\ a # b

C24_BestOnlyStrictlyImproves ==
    [][/\ (best' # best \/ best_priority' # best_priority)
              => /\ Scoring
                 /\ Cardinality(ScoredCandidate.occurrences) >= min_repeats
                 /\ best_priority' = Rank(ScoredCandidate)
                 /\ best' # None
                 /\ best = None
                        \/ StrictlyGreater(best_priority', best_priority)
       /\ (Scoring /\ best # None /\ Rank(ScoredCandidate) = best_priority)
              => (best' = best /\ best_priority' = best_priority)]_vars

\* a valid candidate whose tuple equals that of the best so far is about to
\* be scored
C24_Witness ==
    /\ Scoring
    /\ best # None
    /\ Cardinality(ScoredCandidate.occurrences) >= min_repeats
    /\ Rank(ScoredCandidate) = best_priority
    /\ NameWindow(At(sequences, group).idxs[1], length) # best.kernel_sequence

(***************************************************************************)
(* C25: in every candidate returned, score is length * occurrence_count,   *)
(* which is the number of trace positions its occurrences cover, and so is *)
(* at most the trace length n.                                             *)
(***************************************************************************)
Covered ==
    {i \in 0..(Len(names) - 1) :
        \E s \in Range(result.occurrences) : s <= i /\ i < s + result.length}

C25_ScoreIsCoveredMass ==
    Returned =>
        /\ result.score = result.length * result.occurrence_count
        /\ result.score = Cardinality(Covered)
        /\ result.score <= Len(names)

\* a block of two or more kernels whose occurrences cover the whole trace
C25_Witness ==
    /\ Returned
    /\ result.length >= 2
    /\ result.occurrence_count >= 2
    /\ result.score = Len(names)
    /\ Covered = 0..(Len(names) - 1)

(***************************************************************************)
(* C26: a detection tries the lengths from                                 *)
(* min(max_block_length, n div min_repeats) down to min_block_length, one  *)
(* less each time and each once; the hash table of a length holds the      *)
(* windows of that length and nothing of an earlier length; and the run    *)
(* always ends, after the last length, returning the best it accumulated   *)
(* (or None).                                                              *)
(***************************************************************************)
C26_LengthsDescendAndRunEnds ==
    /\ [][/\ (pc = "start" /\ pc' = "length_loop")
                 => length' = Min2(max_block_length,
                                   Len(names) \div min_repeats)
          /\ (pc # "start" /\ pc' = "length_loop")
                 => (pc = "bucket_loop" /\ length' = length - 1)
          /\ (pc # "start" /\ length' # length)
                 => (pc' = "length_loop" /\ length >= min_block_length)
          /\ (pc = "length_loop" /\ pc' = "bucket_loop")
                 => /\ length \in LengthRange
                    /\ Filed(hashes') = n - length + 1
                    /\ \A i \in 1..Len(hashes') :
                           Range(hashes'[i].idxs) \subseteq 0..(n - length)
          /\ (pc = "length_loop" /\ pc' # "bucket_loop")
                 => /\ pc' = "done"
                    /\ result' = best
                    /\ \A len \in LengthRange : len > length]_vars
    /\ <>(pc = "done")

\* a run that tried two lengths, found a block and returned it
C26_Witness ==
    /\ Returned
    /\ length = min_block_length - 1
    /\ max_length >= min_block_length + 1
    /\ result = best

(***************************************************************************)
(* C27: for a block the detection returned, block_metadata has the rows    *)
(* Target Occurrences and Occurrence Delta exactly when the block's        *)
(* target_occurrences is not None, once each; Target Occurrences is the    *)
(* target the detection was given, and Occurrence Delta is                 *)
(* |occurrence_count - target_occurrences|, the occurrence_diff the        *)
(* detection stored in the block.  When no target was given,               *)
(* occurrence_diff is None and neither row is there.                       *)
(***************************************************************************)
C27_TargetRowsIffTarget ==
    (StatsDone /\ block_info # None)
        => /\ block_info.target_occurrences = target_occurrences
           /\ IF block_info.target_occurrences # NoTarget
              THEN /\ Cardinality(MetricRows("Target Occurrences")) = 1
                   /\ Cardinality(MetricRows("Occurrence Delta")) = 1
                   /\ MetricValue("Target Occurrences") = target_occurrences
                   /\ MetricValue("Occurrence Delta")
                          = Abs(block_info.occurrence_count
                                    - block_info.target_occurrences)
                   /\ MetricValue("Occurrence Delta")
                          = block_info.occurrence_diff
                   /\ Len(metadata.rows) = 11
              ELSE /\ MetricRows("Target Occurrences") = {}
                   /\ MetricRows("Occurrence Delta") = {}
                   /\ block_info.occurrence_diff = NoTarget
                   /\ Len(metadata.rows) = 9

\* a block found with more occurrences than the target asked for
C27_Witness ==
    /\ StatsDone
    /\ block_info # None
    /\ target_occurrences # NoTarget
    /\ MetricRows("Occurrence Delta") # {}
    /\ MetricValue("Occurrence Delta") > 0
    /\ block_info.occurrence_count > target_occurrences

(***************************************************************************)
(* Ties: the valid candidates of the returned length whose ranking tuple   *)
(* is that of the candidate returned.                                      *)
(***************************************************************************)
TiedCandidates ==
    {c \in CandidatesOfLength(result.length) :
        Rank(c) = Rank(AsCandidate(result))}

\* where the token sequence of a candidate first appears
FirstStart(c) == SetMin(c.occurrences)

\* the smallest start of a window filed under the hash of the window at s
BucketStart(s, len) ==
    SetMin({t \in 0..(Len(names) - len) :
               DirectHash(t, len) = DirectHash(s, len)})

\* the order the candidates of one length are come upon: bucket by bucket
\* in the order the buckets were made, and in a bucket by first appearance
DiscoveredBefore(c, d) ==
    LET bc == BucketStart(FirstStart(c), c.length)
        bd == BucketStart(FirstStart(d), d.length)
    IN  bc < bd \/ (bc = bd /\ FirstStart(c) <= FirstStart(d))

NoCollision(len) ==
    \A s, t \in 0..(Len(names) - len) :
        DirectHash(s, len) = DirectHash(t, len)
            => NameWindow(s, len) = NameWindow(t, len)

\* C28 as stated: among the tied candidates the one returned is the one
\* whose token sequence first appears earliest, under every hash.
C28_EarliestTiedCandidateWins ==
    Returned =>
        \A c \in TiedCandidates : result.occurrences[1] <= FirstStart(c)

\* C28: among the tied candidates the one returned is the one come upon
\* first in the bucket iteration: its hash bucket was made first, and in
\* that bucket its token sequence appears first.  When no two different
\* windows of that length share a hash, and when all of them share one
\* (the constant hash), this is the candidate whose token sequence first
\* appears earliest; under other colliding hashes it need not be.  The
\* occurrences and kernel_sequence returned are those of that candidate.
C28_FirstDiscoveredTiedCandidateWins ==
    Returned =>
        /\ AsCandidate(result) \in TiedCandidates
        /\ \A c \in TiedCandidates : DiscoveredBefore(AsCandidate(result), c)
        /\ (NoCollision(result.length) \/ mod = 1)
               => \A c \in TiedCandidates :
                      result.occurrences[1] <= FirstStart(c)
        /\ result.kernel_sequence
               = NameWindow(result.occurrences[1], result.length)
        /\ \A k \in 1..(Len(result.occurrences) - 1) :
               result.occurrences[k] < result.occurrences[k + 1]

\* two tied candidates under a hash that files the later one with an
\* earlier window: the later one is returned
C28_Witness ==
    /\ Returned
    /\ Cardinality(TiedCandidates) >= 2
    /\ ~NoCollision(result.length)
    /\ \E c \in TiedCandidates : FirstStart(c) < result.occurrences[1]

(***************************************************************************)
(* C29: for a block the detection returned, summarize_block on the same    *)
(* trace returns exactly length rows, with Position 0, 1, ..., length-1 in *)
(* that order, each with Occurrences equal to the block's                  *)
(* occurrence_count: every occurrence reaches every offset inside the      *)
(* trace, so no duration is filtered out and no row is skipped.            *)
(***************************************************************************)
C29_OneRowPerOffsetOfReturnedBlock ==
    (StatsDone /\ block_info # None)
        => /\ block_info = result
           /\ Len(durations) = Len(names)
           /\ Len(summary.rows) = block_info.length
           /\ \A i \in 1..Len(summary.rows) :
                  /\ summary.rows[i]["Position"] = i - 1
                  /\ summary.rows[i]["Occurrences"]
                         = block_info.occurrence_count
           /\ \A p \in 0..(block_info.length - 1) :
                  StartsReaching(p) = Range(block_info.occurrences)

\* a block of two kernels whose last occurrence ends with the trace
C29_Witness ==
    /\ StatsDone
    /\ block_info # None
    /\ block_info.length = 2
    /\ Len(summary.rows) = 2
    /\ summary.rows[2]["Occurrences"] = 2
    /\ block_info.occurrences[2] + 2 = Len(durations)

(***************************************************************************)
(* C30: in every candidate returned, occurrences[0] is the earliest        *)
(* position of the trace at which the block's kernel sequence appears, and *)
(* every window equal to kernel_sequence that is not an occurrence         *)
(* overlaps a selected one: it starts inside [s, s + length) for a         *)
(* selected start s.                                                       *)
(***************************************************************************)
C30_FirstOccurrenceEarliestOthersOverlap ==
    Returned =>
        LET everywhere == StartsOf(result.kernel_sequence)
            chosen == Range(result.occurrences)
        IN  /\ chosen \subseteq everywhere
            /\ result.occurrences[1] = SetMin(everywhere)
            /\ \A t \in everywhere \ chosen :
                   \E s \in chosen : s < t /\ t < s + result.length

\* a returned block with a window of its kernel sequence left out because
\* it overlaps a selected occurrence, under a hash with collisions
C30_Witness ==
    /\ Returned
    /\ mod = 4
    /\ result.length >= 2
    /\ StartsOf(result.kernel_sequence) \ Range(result.occurrences) # {}
    /\ result.occurrences[1] > 0

====
